---- MODULE Spec2Model ----
(***************************************************************************)
(* PDFFusion: the document ingestion and merge pipeline.                   *)
(*                                                                         *)
(* A request carries an identifier (lead_id) and an ordered list of URLs   *)
(* and is posted to the staging or to the production endpoint.  The        *)
(* endpoint obtains the lazily constructed PDFService of its environment   *)
(* and runs PDFService.process_and_merge: every URL is downloaded and      *)
(* normalised to a PDF stream (or dropped), the surviving streams are      *)
(* merged in order, a storage key is generated from the clock, and the     *)
(* merged stream is uploaded with at most max_retries attempts.            *)
(*                                                                         *)
(* The outside world (the HTTP servers behind the URLs, the object store,  *)
(* the wall clock) is modelled by Response, s3_behaviour and clock.        *)
(***************************************************************************)
EXTENDS Integers, Sequences, FiniteSets, TLC

\* ------------------------------------------------------------------ bounds

\* Longest list of URLs a request carries.
MaxUrls == 3

\* Longest list of URLs of the two requests that differ in their endpoint
\* only.
MaxEnvUrls == 2

\* The wall clock at start, in seconds after 2026-10-30 00:00:00
\* (86397 is 23:59:57, so that backoff waits cross midnight).
StartClock == 86397

\* Longest list of URLs a request to the wider world carries.
MaxWideUrls == 2

\* Longest list of URLs of each of two requests to the same endpoint.
MaxSharedUrls == 2

\* Longest list of URLs of the request whose upload meets each store.
MaxStoreUrls == 2

\* Longest list of URLs of each of two requests to either endpoint.
MaxBothUrls == 1

\* Longest list of candidates merge_pdfs is called on.
MaxCandidates == 3

\* Most pages of a document validate_pdf is called on, and most validations
\* of one stream.
MaxPages == 4

MaxValidations == 3

\* Images of every size up to MaxSmallDim x MaxSmallDim are converted, and
\* images whose sides are among LargeDims.
MaxSmallDim == 50

\* -------------------------------------------------------- program constants

max_retries == 3

retry_delay == 1

STAGING_BUCKET_NAME == "staging-bucket"

PROD_BUCKET_NAME == "prod-bucket"

\* ------------------------------------------------------------- the requests

Jobs == {1, 2}

LeadIds == {"LEAD123", "LEAD9"}

Endpoints == {"staging", "prod"}

\* The URLs of the world; Response gives what each one serves.
URLs == {"pdfA", "pdfB", "img", "unreachable", "notfound", "text",
         "corrupt", "badimg", "locked"}

UrlLists == UNION {[1..n -> URLs] : n \in 0..MaxUrls}

\* More URLs, of the wider world: servers that label their content in other
\* ways, and one that accepts the connection and never answers.
ExtraURLs == {"gif", "noheader", "octet", "paramPdf", "pngAltPdf", "silent"}

WideURLs == URLs \cup ExtraURLs

WideUrlLists == UNION {[1..n -> WideURLs] : n \in 0..MaxWideUrls}

\* MergeRequest plus the endpoint it is posted to.
MergeRequest == [lead_id : LeadIds, urls : UrlLists, endpoint : Endpoints]

NoRequest == [lead_id |-> "", urls |-> <<>>, endpoint |-> "none"]

\* ------------------------------------------------------- values and streams

\* Python's None, for the Optional results.
None == [none |-> TRUE]

\* The bytes of a document, abstracted: its format, its pages, and whether it
\* is an encrypted PDF (one PdfReader opens but PdfMerger cannot append).
PdfBytes(pages, encrypted) ==
    [kind |-> "pdf", pages |-> pages, encrypted |-> encrypted]

ImageBytes(picture) ==
    [kind |-> "image", pages |-> <<picture>>, encrypted |-> FALSE]

\* A raster image: what it shows and its size in pixels.
Picture(name, width, height) ==
    [name |-> name, width |-> width, height |-> height]

\* The picture behind the URL "img": a 4000 x 2000 landscape photo.
Photo == Picture("photo", 4000, 2000)

\* The picture behind the URLs "gif" and "pngAltPdf".
Banner == Picture("banner", 468, 60)

JunkBytes == [kind |-> "junk", pages |-> <<>>, encrypted |-> FALSE]

\* Length of a byte string, in units of one page (at least one unit).
Size(content) == IF content.pages = <<>> THEN 1 ELSE Len(content.pages)

\* io.BytesIO(content): a stream at position 0.
BytesIO(content) == [content |-> content, pos |-> 0]

seek(stream, n) == [stream EXCEPT !.pos = n]

\* What stream.read() returns: the bytes from the current position on.
ReadFrom(stream) ==
    [stream.content EXCEPT
        !.pages = SubSeq(@, stream.pos + 1, Len(@))]

\* ------------------------------------------------------------ the HTTP side

HttpResponse(error, status_code, content_type, content) ==
    [error |-> error, status_code |-> status_code,
     content_type |-> content_type, content |-> content]

\* requests.get(url): the response each URL of the world gives.  error stands
\* for a transport failure (requests raises before any response exists);
\* content_type is the header as a sequence of tokens, <<>> when it is absent:
\* the media type first, then the pieces of its parameters.
Response(url) ==
    CASE url = "pdfA" ->
           HttpResponse(FALSE, 200, <<"application/pdf">>,
                        PdfBytes(<<"a1">>, FALSE))
      [] url = "pdfB" ->
           HttpResponse(FALSE, 200, <<"Application/PDF", "; charset=binary">>,
                        PdfBytes(<<"b1", "b2">>, FALSE))
      [] url = "img" ->
           HttpResponse(FALSE, 200, <<"image/jpeg">>, ImageBytes(Photo))
      [] url = "unreachable" ->
           HttpResponse(TRUE, 0, <<>>, JunkBytes)
      [] url = "notfound" ->
           HttpResponse(FALSE, 404, <<"application/pdf">>, JunkBytes)
      [] url = "text" ->
           HttpResponse(FALSE, 200, <<"text/html">>, JunkBytes)
      [] url = "corrupt" ->
           HttpResponse(FALSE, 200, <<"application/pdf">>, JunkBytes)
      [] url = "badimg" ->
           HttpResponse(FALSE, 200, <<"image/png">>, JunkBytes)
      [] url = "locked" ->
           HttpResponse(FALSE, 200, <<"application/pdf">>,
                        PdfBytes(<<"x1">>, TRUE))
      [] url = "gif" ->
           HttpResponse(FALSE, 200, <<"image/gif">>, ImageBytes(Banner))
      [] url = "noheader" ->
           HttpResponse(FALSE, 200, <<>>, PdfBytes(<<"n1">>, FALSE))
      [] url = "octet" ->
           HttpResponse(FALSE, 200, <<"application/octet-stream">>,
                        PdfBytes(<<"o1">>, FALSE))
      [] url = "paramPdf" ->
           HttpResponse(FALSE, 200,
                        <<"text/plain", "; note=", "application/pdf">>,
                        PdfBytes(<<"p1">>, FALSE))
      [] url = "pngAltPdf" ->
           HttpResponse(FALSE, 200,
                        <<"IMAGE/PNG", "; alt=", "application/pdf">>,
                        ImageBytes(Banner))

\* requests.get(url) returns or raises: it is called without a timeout, and
\* the server behind "silent" never sends a response.
Responds(url) == url # "silent"

\* str.lower() on one token of a header.
Lower(token) ==
    CASE token = "Application/PDF" -> "application/pdf"
      [] token = "IMAGE/PNG" -> "image/png"
      [] OTHER -> token

\* needle in header.lower()
Contains(header, needle) ==
    \E i \in 1..Len(header) : Lower(header[i]) = needle

\* ---------------------------------------------------------- PDF validation

\* PyPDF2.PdfReader(stream) succeeds: the parser is handed the stream as it
\* stands, and what it reads is a whole PDF (a document read from beyond its
\* head is none).
PdfReaderOk(stream) ==
    /\ stream.content.kind = "pdf"
    /\ ReadFrom(stream) = stream.content

\* validate_pdf with the fault of leaving out pdf_data.seek(0).
validate_pdf_unrewound(pdf_data) ==
    [is_valid |-> PdfReaderOk(pdf_data),
     stream   |-> seek(pdf_data, Size(pdf_data.content))]

\* PDFService.validate_pdf: rewind, parse.  The verdict, and the stream as the
\* call leaves it (the parser has read up to the trailer at the end).
validate_pdf(pdf_data) ==
    LET rewound == seek(pdf_data, 0)
    IN  [is_valid |-> PdfReaderOk(rewound),
         stream   |-> seek(rewound, Size(rewound.content))]

\* ------------------------------------------------------- image normalisation

\* PIL.Image.open(stream) succeeds: the bytes decode as a raster image.
ImageOpenOk(content) == content.kind = "image"

\* A4 at 300 DPI, in pixels.
A4_WIDTH == 2480

A4_HEIGHT == 3508

\* The arithmetic of the scaling is Python's float arithmetic (IEEE 754
\* binary64): aspect_ratio = img_width / img_height is the quotient rounded
\* to 53 significant bits, and int(x * aspect_ratio), int(x / aspect_ratio)
\* truncate a product or quotient that was rounded once more.  The operators
\* below compute these results with integers.

\* The p with 2^p <= w / h < 2^(p+1).
RECURSIVE FloorLog2(_, _)
FloorLog2(w, h) ==
    IF w >= 2 * h THEN FloorLog2(w, 2 * h) + 1
    ELSE IF w < h THEN FloorLog2(2 * w, h) - 1
    ELSE 0

RECURSIVE Pow2(_)
Pow2(k) == IF k = 0 THEN 1 ELSE 2 * Pow2(k - 1)

\* (r * 2^k) mod h, ten doublings at a time.
RECURSIVE ShiftMod(_, _, _)
ShiftMod(r, k, h) ==
    IF k >= 10
    THEN ShiftMod((1024 * (r % h)) % h, k - 10, h)
    ELSE (Pow2(k) * (r % h)) % h

RECURSIVE IsPow2(_)
IsPow2(q) == IF q % 2 = 0 THEN IsPow2(q \div 2) ELSE q = 1

\* x * 2^t > y, for naturals x, y and an integer t.
ScaledGreater(x, t, y) ==
    IF t >= 0
    THEN x > y \div Pow2(t)
    ELSE \/ x \div Pow2(-t) > y
         \/ x \div Pow2(-t) = y /\ x % Pow2(-t) > 0

\* The rounding error of aspect_ratio = w / h: the float is
\* (w * 2^k + d) / (h * 2^k) for k = 52 - FloorLog2(w, h) and this d.
RatioError(w, h) ==
    LET r == ShiftMod(w, 52 - FloorLog2(w, h), h)
    IN  IF 2 * r < h THEN -r ELSE h - r

\* The exponent that compares an error with half the distance from the
\* integer q down to the float before it.
HalfUlpShift(w, h, q) ==
    FloorLog2(w, h) - FloorLog2(q, 1) + 1 + (IF IsPow2(q) THEN 1 ELSE 0)

\* int(n * aspect_ratio), for aspect_ratio = w / h.
MulTrunc(n, w, h) ==
    LET q == (n * w) \div h
        d == RatioError(w, h)
    IN  IF (n * w) % h # 0 \/ d >= 0 \/ q = 0
        THEN q
        ELSE IF ScaledGreater(n * (-d), HalfUlpShift(w, h, q), h)
        THEN q - 1
        ELSE q

\* int(n / aspect_ratio), for aspect_ratio = w / h.
DivTrunc(n, w, h) ==
    LET q == (n * h) \div w
        d == RatioError(w, h)
    IN  IF (n * h) % w # 0 \/ d <= 0 \/ q = 0
        THEN q
        ELSE IF ScaledGreater(q * d, HalfUlpShift(w, h, q), w)
        THEN q - 1
        ELSE q

Min(a, b) == IF a <= b THEN a ELSE b

\* ScaleLandscape with the fault of keeping the image's own width where
\* min(A4_WIDTH, img_width) is meant.
ScaleLandscapeNoCap(img_width, img_height) ==
    LET new_width  == img_width
        new_height == DivTrunc(new_width, img_width, img_height)
    IN  IF new_height > A4_HEIGHT
        THEN <<MulTrunc(A4_HEIGHT, img_width, img_height), A4_HEIGHT>>
        ELSE <<new_width, new_height>>

\* The landscape branch of the scaling: <<new_width, new_height>>.
ScaleLandscape(img_width, img_height) ==
    LET new_width  == Min(A4_WIDTH, img_width)
        new_height == DivTrunc(new_width, img_width, img_height)
    IN  IF new_height > A4_HEIGHT
        THEN <<MulTrunc(A4_HEIGHT, img_width, img_height), A4_HEIGHT>>
        ELSE <<new_width, new_height>>

\* The portrait branch of the scaling: <<new_width, new_height>>.
ScalePortrait(img_width, img_height) ==
    LET new_height == Min(A4_HEIGHT, img_height)
        new_width  == MulTrunc(new_height, img_width, img_height)
    IN  IF new_width > A4_WIDTH
        THEN <<A4_WIDTH, DivTrunc(A4_WIDTH, img_width, img_height)>>
        ELSE <<new_width, new_height>>

\* The new dimensions convert_image_to_pdf computes for an image of
\* img_width x img_height pixels; aspect_ratio > 1 is img_width > img_height
\* (the float quotient of two integers is 1.0 exactly when they are equal).
ScaledSize(img_width, img_height) ==
    IF img_width > img_height
    THEN ScaleLandscape(img_width, img_height)
    ELSE ScalePortrait(img_width, img_height)

\* The position that centers the resized image on the canvas.
Offsets(new_size) ==
    <<(A4_WIDTH - new_size[1]) \div 2, (A4_HEIGHT - new_size[2]) \div 2>>

\* Image.resize raises for an empty size.
ResizeRaises(new_size) == new_size[1] < 1 \/ new_size[2] < 1

\* PDFService.convert_image_to_pdf: a one-page PDF stream at position 0 whose
\* page shows the picture (resized to ScaledSize and pasted at Offsets), or
\* None when anything in the conversion raises.
convert_image_to_pdf(image_data) ==
    IF ~ImageOpenOk(image_data.content)
    THEN None
    ELSE LET image    == image_data.content.pages[1]
             new_size == ScaledSize(image.width, image.height)
         IN  IF ResizeRaises(new_size)
             THEN None
             ELSE BytesIO(PdfBytes(<<image.name>>, FALSE))

\* ------------------------------------------------------- fetch and classify

IsPdfType(content_type) == Contains(content_type, "application/pdf")

IsImageType(content_type) ==
    \E img_type \in {"image/jpeg", "image/png", "image/gif"} :
        Contains(content_type, img_type)

\* PDFService.download_and_convert_file: the PDF stream for one URL, or None
\* when the reference is dropped.
download_and_convert_file(url) ==
    LET response == Response(url)
    IN  IF response.error
        THEN None                                \* requests.get raises
        ELSE IF response.status_code >= 400
        THEN None                                \* raise_for_status raises
        ELSE LET content_type == response.content_type
                 file_data    == BytesIO(response.content)
             IN  IF IsPdfType(content_type)
                 THEN LET v == validate_pdf(file_data)
                      IN  IF v.is_valid THEN v.stream ELSE None
                 ELSE IF IsImageType(content_type)
                 THEN convert_image_to_pdf(file_data)
                 ELSE None

\* -------------------------------------------------------------------- merge

\* PdfMerger.append(stream) raises: an encrypted document opens but its
\* pages cannot be read.
AppendRaises(content) == content.encrypted

\* MergeLoop with the fault of inserting each document at position 0 of the
\* merger instead of appending it.
RECURSIVE MergeLoopPrepend(_, _, _)
MergeLoopPrepend(pdf_files, i, merger_pages) ==
    IF i > Len(pdf_files)
    THEN merger_pages
    ELSE LET v == validate_pdf(seek(pdf_files[i], 0))
         IN  IF ~v.is_valid \/ AppendRaises(v.stream.content)
             THEN MergeLoopPrepend(pdf_files, i + 1, merger_pages)
             ELSE MergeLoopPrepend(pdf_files, i + 1,
                                   v.stream.content.pages \o merger_pages)

\* MergeLoop with the fault of leaving the loop at the first candidate that
\* cannot be merged (break for continue).
RECURSIVE MergeLoopBreak(_, _, _)
MergeLoopBreak(pdf_files, i, merger_pages) ==
    IF i > Len(pdf_files)
    THEN merger_pages
    ELSE LET v == validate_pdf(seek(pdf_files[i], 0))
         IN  IF ~v.is_valid \/ AppendRaises(v.stream.content)
             THEN merger_pages
             ELSE MergeLoopBreak(pdf_files, i + 1,
                                 merger_pages \o v.stream.content.pages)

\* The loop of merge_pdfs from candidate i on: merger.pages after it.
RECURSIVE MergeLoop(_, _, _)
MergeLoop(pdf_files, i, merger_pages) ==
    IF i > Len(pdf_files)
    THEN merger_pages
    ELSE LET v == validate_pdf(seek(pdf_files[i], 0))
         IN  IF ~v.is_valid
             THEN MergeLoop(pdf_files, i + 1, merger_pages)      \* skipped
             ELSE IF AppendRaises(v.stream.content)
             THEN MergeLoop(pdf_files, i + 1, merger_pages)      \* skipped
             ELSE MergeLoop(pdf_files, i + 1,
                            merger_pages \o v.stream.content.pages)

\* The candidates as the loop of merge_pdfs leaves them: the streams are
\* the caller's, and each was rewound and read by validate_pdf (and by
\* merger.append, which reads no further than the parser did).
MergeLoopStreams(pdf_files) ==
    [i \in 1..Len(pdf_files) |-> validate_pdf(seek(pdf_files[i], 0)).stream]

\* merge_pdfs with the fault of writing the merger out without looking at
\* len(merger.pages).
merge_pdfs_unchecked(pdf_files) ==
    IF pdf_files = <<>>
    THEN None
    ELSE BytesIO(PdfBytes(MergeLoop(pdf_files, 1, <<>>), FALSE))

\* PDFService.merge_pdfs: the merged stream at position 0, or None.
merge_pdfs(pdf_files) ==
    IF pdf_files = <<>>
    THEN None
    ELSE LET merger_pages == MergeLoop(pdf_files, 1, <<>>)
         IN  IF Len(merger_pages) = 0
             THEN None
             ELSE BytesIO(PdfBytes(merger_pages, FALSE))

\* ------------------------------------------------------------ storage key

DigitChars == <<"0", "1", "2", "3", "4", "5", "6", "7", "8", "9">>

\* n as w decimal digits, zero padded (the %Y %m %d %H %M %S fields).
RECURSIVE Pow10(_)
Pow10(k) == IF k = 0 THEN 1 ELSE 10 * Pow10(k - 1)

Pad(n, w) == [i \in 1..w |-> DigitChars[((n \div Pow10(w - i)) % 10) + 1]]

\* datetime.strftime("%Y%m%d_%H%M%S") of the clock value t, seconds after
\* 2026-10-30 00:00:00 (t stays below two days).
strftime(t) ==
    Pad(2026, 4) \o Pad(10, 2) \o Pad(30 + (t \div 86400), 2) \o <<"_">>
      \o Pad((t % 86400) \div 3600, 2) \o Pad((t % 3600) \div 60, 2)
      \o Pad(t % 60, 2)

\* f"{lead_id}/merged_pdf/merged_document_{timestamp}.pdf"
MakeKey(lead_id, timestamp) ==
    <<lead_id, "/merged_pdf/merged_document_">> \o timestamp \o <<".pdf">>

\* BucketFor with the fault of ignoring is_prod.
BucketForStaging(is_prod) == STAGING_BUCKET_NAME

\* The bucket process_and_merge picks for its is_prod argument.
BucketFor(is_prod) ==
    IF is_prod THEN PROD_BUCKET_NAME ELSE STAGING_BUCKET_NAME

\* ------------------------------------------------------- the world, by name

\* What the URLs of the world are, said without the program: the ones that
\* serve a valid, readable PDF; the ones that serve something the pipeline
\* can use; the ones whose download gives nothing (transport error, error
\* status, unsupported type, invalid PDF, undecodable image); the ones that
\* contribute no page (the dropped ones, and the PDF that cannot be read).
ValidPdfURLs == {"pdfA", "pdfB"}

UsableURLs == {"pdfA", "pdfB", "img"}

DroppedURLs == {"unreachable", "notfound", "text", "corrupt", "badimg"}

UnusableURLs == URLs \ UsableURLs

\* -------------------------------------------------------------------- state

VARIABLES
    request,          \* job -> the MergeRequest it will post, or NoRequest
    job,              \* job -> the locals of its process_and_merge call
    response,         \* job -> what the endpoint answered, or NoResponse
    running,          \* the job the event loop is executing, 0 when it is free
    staging_service,  \* endpoints.staging_service: an instance id, 0 for None
    prod_service,     \* endpoints.prod_service: an instance id, 0 for None
    constructed,      \* instance id -> the is_prod it was constructed with
    clock,            \* the wall clock, in seconds
    s3,               \* the object store: a set of [bucket, key, body]
    s3_behaviour,     \* attempt -> the outcomes the store may give to it
    calls,            \* every upload_fileobj call made so far
    direct_call       \* a method of PDFService called on its own, or NoCall

vars == <<request, job, response, running, staging_service, prod_service,
          constructed, clock, s3, s3_behaviour, calls, direct_call>>

\* What the store does with one upload_fileobj call: `code` is "ok", or the
\* code of the ClientError it raises, or "ConnectionClosed" for an exception
\* that is no ClientError; `read` is how much of the stream it consumed
\* before that (nothing, half of it, all of it).
S3Outcome(code, read) == [code |-> code, read |-> read]

Ok == S3Outcome("ok", "all")

S3Errors == {"RequestTimeTooSkewed", "AccessDenied", "ConnectionClosed"}

S3Outcomes ==
    {Ok} \cup {S3Outcome(c, r) : c \in S3Errors, r \in {"none", "part", "all"}}

\* Where a transfer that read `read` of the stream leaves its position.
PosAfter(content, read) ==
    CASE read = "none" -> 0
      [] read = "part" -> (Size(content) + 1) \div 2
      [] read = "all"  -> Size(content)

NoResponse == [status |-> 0, s3_key |-> <<>>, detail |-> <<>>]

\* No method is called on its own.
NoCall == [method |-> "none"]

\* The locals of process_and_merge before the call.
IdleJob ==
    [pc |-> "idle", service |-> 0, is_prod |-> FALSE, idx |-> 1,
     pdf_files |-> <<>>, merges |-> 0, merged_pdf |-> None, bucket |-> "",
     s3_key |-> <<>>, attempt |-> 0, steps |-> <<>>]

\* The service after start-up, for the requests `reqs` and a store that
\* behaves as `behaviour` says.
Started(reqs, behaviour) ==
    /\ request = reqs
    /\ job = [j \in Jobs |-> IdleJob]
    /\ response = [j \in Jobs |-> NoResponse]
    /\ running = 0
    /\ staging_service = 0
    /\ prod_service = 0
    /\ constructed = <<>>
    /\ clock = StartClock
    /\ s3 = {}
    /\ s3_behaviour = behaviour
    /\ calls = {}

\* The state after start-up when the requests `reqs` are what happens.
InitWith(reqs, behaviour) ==
    /\ Started(reqs, behaviour)
    /\ direct_call = NoCall

\* A store that may answer every attempt in every way.
AnyBehaviour == [a \in 0..(max_retries - 1) |-> S3Outcomes]

\* The state after start-up when no request comes and the method call
\* `c` is what happens.
InitCall(c) ==
    /\ Started([j \in Jobs |-> NoRequest], AnyBehaviour)
    /\ direct_call = c

Init ==
    \E r \in MergeRequest :
        InitWith([j \in Jobs |-> IF j = 1 THEN r ELSE NoRequest], AnyBehaviour)

\* `urls` without its element at u.
Remove(urls, u) == SubSeq(urls, 1, u - 1) \o SubSeq(urls, u + 1, Len(urls))

\* A store whose first answer to a job may be a failure.
FirstMayFail ==
    [a \in 0..(max_retries - 1) |->
        IF a = 0 THEN {Ok, S3Outcome("RequestTimeTooSkewed", "part")}
        ELSE {Ok}]

\* Two requests: a list with an unusable reference, and the same list
\* without that reference.
InitOmit ==
    \E urls \in UrlLists : \E u \in 1..Len(urls) :
        /\ urls[u] \in UnusableURLs
        /\ InitWith(
             [j \in Jobs |->
                 IF j = 1
                 THEN [lead_id |-> "LEAD123", urls |-> urls,
                       endpoint |-> "staging"]
                 ELSE [lead_id |-> "LEAD123", urls |-> Remove(urls, u),
                       endpoint |-> "prod"]],
             FirstMayFail)

\* A store that fails the first k attempts of every job with `code`, having
\* read part of the stream, and accepts the next.
FailsFirst(k, code) ==
    [a \in 0..(max_retries - 1) |->
        IF a < k THEN {S3Outcome(code, "part")} ELSE {Ok}]

\* Two requests with the same identifier and the same list, one posted to
\* each endpoint, and a store that treats both jobs alike.
InitEnv ==
    \E lead_id \in LeadIds, n \in 0..MaxEnvUrls, k \in 0..max_retries,
       code \in S3Errors :
      \E urls \in [1..n -> URLs] :
        InitWith(
          [j \in Jobs |->
              [lead_id |-> lead_id, urls |-> urls,
               endpoint |-> IF j = 1 THEN "staging" ELSE "prod"]],
          FailsFirst(k, code))

\* ---------------------------------------------------------------- endpoints

\* The endpoint's answer when process_and_merge returned s3_key.
Success(key) == [status |-> 200, s3_key |-> key, detail |-> <<>>]

\* Failure with the fault of dropping the cause from the message.
FailureGeneric(msg) ==
    [status |-> 500, s3_key |-> <<>>,
     detail |-> <<"Failed to process and merge PDFs: ", "error">>]

\* The endpoint's answer when process_and_merge raised: the message of the
\* ValueError the except clause of process_and_merge wraps around str(e).
Failure(msg) ==
    [status |-> 500, s3_key |-> <<>>,
     detail |-> <<"Failed to process and merge PDFs: ", msg>>]

\* The handler runs process_and_merge without awaiting: the event loop runs
\* one request at a time.
Enter(j, inst, is_prod) ==
    /\ job' = [job EXCEPT ![j] =
                  [@ EXCEPT !.pc = "fetching", !.service = inst,
                            !.is_prod = is_prod,
                            !.steps = Append(@, "receive")]]
    /\ running' = j

\* get_staging_service with the fault of constructing a PDFService on every
\* call.
get_staging_service_always ==
    /\ constructed' = Append(constructed, FALSE)
    /\ staging_service' = Len(constructed) + 1

\* get_staging_service(): PDFService(is_prod=False) is constructed when the
\* global is None, and the global is what the call returns.
get_staging_service ==
    IF staging_service = 0
    THEN /\ constructed' = Append(constructed, FALSE)
         /\ staging_service' = Len(constructed) + 1
    ELSE UNCHANGED <<constructed, staging_service>>

\* get_prod_service(): the same for PDFService(is_prod=True).
get_prod_service ==
    IF prod_service = 0
    THEN /\ constructed' = Append(constructed, TRUE)
         /\ prod_service' = Len(constructed) + 1
    ELSE UNCHANGED <<constructed, prod_service>>

\* POST /staging/merge: get_staging_service(), then process_and_merge(...,
\* is_prod=False) starts.
merge_pdfs_staging(j) ==
    /\ request[j].endpoint = "staging"
    /\ job[j].pc = "idle"
    /\ running = 0
    /\ get_staging_service
    /\ Enter(j, staging_service', FALSE)
    /\ UNCHANGED <<direct_call, request, response, prod_service, clock, s3,
                   s3_behaviour, calls>>

\* POST /prod/merge: get_prod_service(), then process_and_merge(...,
\* is_prod=True) starts.
merge_pdfs_prod(j) ==
    /\ request[j].endpoint = "prod"
    /\ job[j].pc = "idle"
    /\ running = 0
    /\ get_prod_service
    /\ Enter(j, prod_service', TRUE)
    /\ UNCHANGED <<direct_call, request, response, staging_service, clock, s3,
                   s3_behaviour, calls>>

\* ------------------------------------------------------- process_and_merge

\* The messages of the three ValueErrors process_and_merge raises.
NoFilesMsg == "No valid files could be processed"

MergeMsg == "Failed to merge PDFs"

UploadMsg == "Failed to upload to S3 after multiple attempts"

\* process_and_merge raises ValueError(msg); the endpoint answers 500.
Raise(j, msg) ==
    /\ job' = [job EXCEPT ![j] =
                  [@ EXCEPT !.pc = "failed", !.steps = Append(@, "raise")]]
    /\ response' = [response EXCEPT ![j] = Failure(msg)]
    /\ running' = 0

\* Fetched with the fault of keeping pdf_files in the service instance, where
\* every job it serves appends to the same list.
FetchedShared(j, pdf_file) ==
    /\ job' = [k \in Jobs |->
                  IF k = j
                  THEN [job[k] EXCEPT !.idx = @ + 1,
                                      !.pdf_files = IF pdf_file # None
                                                    THEN Append(@, pdf_file)
                                                    ELSE @,
                                      !.steps = Append(@, "download")]
                  ELSE IF pdf_file # None /\ job[k].service = job[j].service
                  THEN [job[k] EXCEPT !.pdf_files = Append(@, pdf_file)]
                  ELSE job[k]]
    /\ UNCHANGED <<response, running>>

\* The effect of one iteration of the download loop on the locals.
Fetched(j, pdf_file) ==
    /\ job' = [job EXCEPT ![j] =
                  [@ EXCEPT !.idx = @ + 1,
                            !.pdf_files = IF pdf_file # None
                                          THEN Append(@, pdf_file)
                                          ELSE @,
                            !.steps = Append(@, "download")]]
    /\ UNCHANGED <<response, running>>

\* Download with the fault of letting the error of a failed reference escape
\* from download_and_convert_file into process_and_merge.
DownloadUnguarded(j) ==
    /\ running = j
    /\ job[j].pc = "fetching"
    /\ job[j].idx <= Len(request[j].urls)
    /\ Responds(request[j].urls[job[j].idx])
    /\ LET pdf_file == download_and_convert_file(request[j].urls[job[j].idx])
       IN  IF pdf_file = None
           THEN Raise(j, "Error downloading file")
           ELSE Fetched(j, pdf_file)
    /\ UNCHANGED <<direct_call, request, staging_service, prod_service,
                   constructed, clock, s3, s3_behaviour, calls>>

\* One iteration of the download loop.
Download(j) ==
    /\ running = j
    /\ job[j].pc = "fetching"
    /\ job[j].idx <= Len(request[j].urls)
    /\ Responds(request[j].urls[job[j].idx])
    /\ Fetched(j, download_and_convert_file(request[j].urls[job[j].idx]))
    /\ UNCHANGED <<direct_call, request, staging_service, prod_service,
                   constructed, clock, s3, s3_behaviour, calls>>

\* The loop is over and pdf_files is empty.
NoValidFiles(j) ==
    /\ running = j
    /\ job[j].pc = "fetching"
    /\ job[j].idx > Len(request[j].urls)
    /\ job[j].pdf_files = <<>>
    /\ Raise(j, NoFilesMsg)
    /\ UNCHANGED <<direct_call, request, staging_service, prod_service,
                   constructed, clock, s3, s3_behaviour, calls>>

\* The call of merge_pdfs and the check of its result; the call moves the
\* streams of pdf_files.
CallMerge(j) ==
    LET merged_pdf == merge_pdfs(job[j].pdf_files)
        left       == MergeLoopStreams(job[j].pdf_files)
    IN  IF merged_pdf = None
        THEN /\ job' = [job EXCEPT ![j] =
                           [@ EXCEPT !.pc = "failed", !.merges = @ + 1,
                                     !.pdf_files = left,
                                     !.steps = Append(@, "merge")]]
             /\ response' = [response EXCEPT ![j] = Failure(MergeMsg)]
             /\ running' = 0
        ELSE /\ job' = [job EXCEPT ![j] =
                           [@ EXCEPT !.pc = "merged", !.merges = @ + 1,
                                     !.pdf_files = left,
                                     !.merged_pdf = merged_pdf,
                                     !.steps = Append(@, "merge")]]
             /\ UNCHANGED <<response, running>>

\* Merge with the fault of not checking pdf_files before merge_pdfs is called.
MergeUnchecked(j) ==
    /\ running = j
    /\ job[j].pc = "fetching"
    /\ job[j].idx > Len(request[j].urls)
    /\ CallMerge(j)
    /\ UNCHANGED <<direct_call, request, staging_service, prod_service,
                   constructed, clock, s3, s3_behaviour, calls>>

\* Merge with the fault of starting while references are still to be fetched.
MergeEarly(j) ==
    /\ running = j
    /\ job[j].pc = "fetching"
    /\ job[j].pdf_files # <<>>
    /\ CallMerge(j)
    /\ UNCHANGED <<direct_call, request, staging_service, prod_service,
                   constructed, clock, s3, s3_behaviour, calls>>

\* The loop is over and pdf_files is not empty: merge_pdfs is called.
Merge(j) ==
    /\ running = j
    /\ job[j].pc = "fetching"
    /\ job[j].idx > Len(request[j].urls)
    /\ job[j].pdf_files # <<>>
    /\ CallMerge(j)
    /\ UNCHANGED <<direct_call, request, staging_service, prod_service,
                   constructed, clock, s3, s3_behaviour, calls>>

\* The bucket and the key: datetime.now() reads the clock.  (Time is counted
\* in whole seconds and advances while the program sleeps; the other steps
\* of a job take less than a second.)
GenerateKey(j) ==
    /\ running = j
    /\ job[j].pc = "merged"
    /\ job' = [job EXCEPT ![j] =
                  [@ EXCEPT !.pc = "uploading",
                            !.bucket = BucketFor(job[j].is_prod),
                            !.s3_key = MakeKey(request[j].lead_id,
                                               strftime(clock)),
                            !.attempt = 0,
                            !.steps = Append(@, "key")]]
    /\ UNCHANGED <<direct_call, request, response, running, staging_service,
                   prod_service, constructed, clock, s3, s3_behaviour, calls>>

\* ------------------------------------------------------------ upload_to_s3

\* Rewind with the fault of leaving the stream where the last attempt left
\* it.
RewindSkipped(file_data) == file_data

\* file_data.seek(0) at the head of an attempt.
Rewind(file_data) == seek(file_data, 0)

\* The store after upload_fileobj succeeded: the object under (bucket, key)
\* is created or replaced.
PutObject(store, bucket, key, body) ==
    {o \in store : ~(o.bucket = bucket /\ o.key = key)}
        \cup {[bucket |-> bucket, key |-> key, body |-> body]}

\* GivesUp with the fault of counting the attempts from 1: the loop is left
\* one attempt early.
GivesUpEarly(code, attempt) ==
    /\ code # "RequestTimeTooSkewed"
    /\ attempt + 1 >= max_retries - 1

\* The failed attempt returns None at once: any error but the clock skew, on
\* the last attempt.
GivesUp(code, attempt) ==
    /\ code # "RequestTimeTooSkewed"
    /\ attempt = max_retries - 1

\* BackoffDelay with the fault of waiting retry_delay after every attempt.
BackoffDelayFlat(attempt) == retry_delay

\* time.sleep(retry_delay * (attempt + 1))
BackoffDelay(attempt) == retry_delay * (attempt + 1)

\* UploadKey with the fault of building the key anew for every attempt.
UploadKeyFresh(j) == MakeKey(request[j].lead_id, strftime(clock))

\* The key upload_to_s3 is called with: s3_key, made once before the call.
UploadKey(j) == job[j].s3_key

\* One iteration of the retry loop up to the outcome of upload_fileobj.  On
\* success upload_to_s3 returns the key and process_and_merge returns s3_key.
\* A failed transfer leaves the stream wherever the store stopped reading.
UploadAttempt(j) ==
    /\ running = j
    /\ job[j].pc = "uploading"
    /\ LET file_data == Rewind(job[j].merged_pdf)
           body      == ReadFrom(file_data)
           call      == [job |-> j, bucket |-> job[j].bucket,
                         key |-> UploadKey(j), attempt |-> job[j].attempt,
                         body |-> body]
       IN  /\ calls' = calls \cup {call}
           /\ \E outcome \in s3_behaviour[job[j].attempt] :
                LET after == seek(file_data,
                                  PosAfter(file_data.content, outcome.read))
                IN  IF outcome.code = "ok"
                    THEN /\ s3' = PutObject(s3, call.bucket, call.key, body)
                         /\ job' = [job EXCEPT ![j] =
                               [@ EXCEPT !.pc = "succeeded",
                                         !.merged_pdf = after,
                                         !.steps = Append(@, "upload")]]
                         /\ response' = [response EXCEPT ![j] =
                                            Success(job[j].s3_key)]
                         /\ running' = 0
                    ELSE IF GivesUp(outcome.code, job[j].attempt)
                    THEN /\ s3' = s3
                         /\ job' = [job EXCEPT ![j] =
                               [@ EXCEPT !.pc = "failed",
                                         !.merged_pdf = after,
                                         !.steps = Append(@, "upload")]]
                         /\ response' = [response EXCEPT ![j] =
                               Failure(UploadMsg)]
                         /\ running' = 0
                    ELSE /\ s3' = s3
                         /\ job' = [job EXCEPT ![j] =
                               [@ EXCEPT !.pc = "sleeping",
                                         !.merged_pdf = after,
                                         !.steps = Append(@, "upload")]]
                         /\ UNCHANGED <<response, running>>
    /\ UNCHANGED <<direct_call, request, staging_service, prod_service,
                   constructed, clock, s3_behaviour>>

\* The wait after a failed attempt, and the head of the loop: the next
\* attempt, or the return None after the loop when there is none left (the
\* loop variable keeps the number of the last attempt).
Backoff(j) ==
    /\ running = j
    /\ job[j].pc = "sleeping"
    /\ clock' = clock + BackoffDelay(job[j].attempt)
    /\ IF job[j].attempt + 1 < max_retries
       THEN /\ job' = [job EXCEPT ![j] =
                          [@ EXCEPT !.pc = "uploading", !.attempt = @ + 1,
                                    !.steps = Append(@, "sleep")]]
            /\ UNCHANGED <<response, running>>
       ELSE /\ job' = [job EXCEPT ![j] =
                          [@ EXCEPT !.pc = "failed",
                                    !.steps = Append(@, "sleep")]]
            /\ response' = [response EXCEPT ![j] =
                  Failure(UploadMsg)]
            /\ running' = 0
    /\ UNCHANGED <<direct_call, request, staging_service, prod_service,
                   constructed, s3, s3_behaviour, calls>>

\* ------------------------------------------------------------ specification

Next ==
    \E j \in Jobs :
        \/ merge_pdfs_staging(j)
        \/ merge_pdfs_prod(j)
        \/ Download(j)
        \/ NoValidFiles(j)
        \/ Merge(j)
        \/ GenerateKey(j)
        \/ UploadAttempt(j)
        \/ Backoff(j)

Spec == Init /\ [][Next]_vars

\* ------------------------------------------ methods called on their own

\* The result of a call that has not returned.
Pending == [pending |-> TRUE]

\* Sides of images beyond the small ones: around the canvas sides, their
\* doubles, and the sizes of the documented examples.
LargeDims == {1240, 2000, 2479, 2480, 2481, 3507, 3508, 3509, 4000, 4960,
              5000, 7016}

Dims == (1..MaxSmallDim) \cup LargeDims

\* The streams convert_image_to_pdf is called on: an image of every size,
\* and bytes that are no image.
ImageStreams ==
    {BytesIO(ImageBytes(Picture("drawn", w, h))) : w \in Dims, h \in Dims}
      \cup {BytesIO(JunkBytes)}

InitImage ==
    \E image_data \in ImageStreams :
        InitCall([method |-> "convert_image_to_pdf",
                  image_data |-> image_data, new_size |-> Pending,
                  offset |-> Pending, result |-> Pending])

UnchangedService ==
    UNCHANGED <<request, job, response, running, staging_service,
                prod_service, constructed, clock, s3, s3_behaviour, calls>>

\* convert_image_to_pdf(image_data) runs and returns; new_size and offset
\* are its locals when it got that far.
ConvertImage ==
    /\ direct_call.method = "convert_image_to_pdf"
    /\ direct_call.result = Pending
    /\ LET image_data == direct_call.image_data
           opened     == ImageOpenOk(image_data.content)
           image      == image_data.content.pages[1]
           new_size   == ScaledSize(image.width, image.height)
       IN  direct_call' =
             [direct_call EXCEPT
                !.new_size = IF opened THEN new_size ELSE Pending,
                !.offset = IF opened /\ ~ResizeRaises(new_size)
                           THEN Offsets(new_size) ELSE Pending,
                !.result = convert_image_to_pdf(image_data)]
    /\ UnchangedService

SpecImage == InitImage /\ [][ConvertImage]_vars

\* The streams validate_pdf is called on: PDFs of 1 to MaxPages pages,
\* readable or not, and bytes that are no PDF, at every position.
ValidatedContents ==
    {PdfBytes([k \in 1..n |-> "page"], encrypted) :
        n \in 1..MaxPages, encrypted \in BOOLEAN}
      \cup {JunkBytes}

InitValidate ==
    \E content \in ValidatedContents :
      \E pos \in 0..Size(content) :
        InitCall([method |-> "validate_pdf",
                  pdf_data |-> seek(BytesIO(content), pos),
                  original |-> content, starts |-> <<>>,
                  verdicts |-> <<>>])

\* validate_pdf(pdf_data) runs and returns its verdict; starts keeps the
\* position the stream had when the call was made.
Validate ==
    /\ direct_call.method = "validate_pdf"
    /\ Len(direct_call.verdicts) < MaxValidations
    /\ LET v == validate_pdf(direct_call.pdf_data)
       IN  direct_call' =
             [direct_call EXCEPT
                !.pdf_data = v.stream,
                !.starts = Append(@, direct_call.pdf_data.pos),
                !.verdicts = Append(@, v.is_valid)]
    /\ UnchangedService

\* Between two validations the stream is read or moved by its holder.
Reposition ==
    /\ direct_call.method = "validate_pdf"
    /\ direct_call.verdicts # <<>>
    /\ \E pos \in 0..Size(direct_call.pdf_data.content) :
          direct_call' =
            [direct_call EXCEPT !.pdf_data = seek(@, pos)]
    /\ UnchangedService

NextValidate == Validate \/ Reposition

SpecValidate == InitValidate /\ [][NextValidate]_vars

\* The documents merge_pdfs may be handed: PDFs as a download leaves them,
\* the page made of an image, a PDF that cannot be read, and bytes that are
\* no PDF, each with the stream at its start or at its end.
CandidateContents ==
    {PdfBytes(<<"a1">>, FALSE), PdfBytes(<<"b1", "b2">>, FALSE),
     convert_image_to_pdf(BytesIO(ImageBytes(Photo))).content,
     PdfBytes(<<"x1">>, TRUE), JunkBytes}

CandidateStreams ==
    {seek(BytesIO(content), pos) :
        content \in CandidateContents, pos \in {0, 1}}

InitMerge ==
    \E n \in 0..MaxCandidates :
      \E pdf_files \in [1..n -> CandidateStreams] :
        InitCall([method |-> "merge_pdfs", pdf_files |-> pdf_files,
                  i |-> 1, merger_pages |-> <<>>, events |-> <<>>,
                  result |-> Pending])

\* What the loop of merge_pdfs does: it validates candidate i, and appends
\* it to the merger, which may raise.
Validated(i, is_valid) == [op |-> "validate", i |-> i, is_valid |-> is_valid]

Appended(i, raised) == [op |-> "append", i |-> i, raised |-> raised]

\* MergeOne with the fault of appending the candidate without validating
\* it.
MergeOneUnvalidated(i, pdf_file) ==
    LET rewound == seek(pdf_file, 0)
        raises  == ~PdfReaderOk(rewound)
                     \/ AppendRaises(rewound.content)
    IN  [events |-> <<Appended(i, raises)>>,
         pages  |-> IF raises THEN <<>> ELSE rewound.content.pages,
         stream |-> seek(rewound, Size(rewound.content))]

\* One iteration of the loop of merge_pdfs, for candidate i: what it does,
\* the pages the merger gains, and the stream as it is left.
MergeOne(i, pdf_file) ==
    LET v == validate_pdf(seek(pdf_file, 0))
    IN  IF ~v.is_valid
        THEN [events |-> <<Validated(i, FALSE)>>, pages |-> <<>>,
              stream |-> v.stream]
        ELSE IF AppendRaises(v.stream.content)
        THEN [events |-> <<Validated(i, TRUE), Appended(i, TRUE)>>,
              pages |-> <<>>, stream |-> v.stream]
        ELSE [events |-> <<Validated(i, TRUE), Appended(i, FALSE)>>,
              pages |-> v.stream.content.pages, stream |-> v.stream]

\* merge_pdfs(pdf_files) goes through one candidate.
MergeCandidate ==
    /\ direct_call.method = "merge_pdfs"
    /\ direct_call.result = Pending
    /\ direct_call.i <= Len(direct_call.pdf_files)
    /\ LET i    == direct_call.i
           done == MergeOne(i, direct_call.pdf_files[i])
       IN  direct_call' =
             [direct_call EXCEPT
                !.i = i + 1,
                !.pdf_files[i] = done.stream,
                !.merger_pages = @ \o done.pages,
                !.events = @ \o done.events]
    /\ UnchangedService

\* merge_pdfs(pdf_files) returns: None for no candidates or no pages, the
\* written merger otherwise.
MergeReturn ==
    /\ direct_call.method = "merge_pdfs"
    /\ direct_call.result = Pending
    /\ direct_call.i > Len(direct_call.pdf_files)
    /\ direct_call' =
          [direct_call EXCEPT
             !.result = IF direct_call.pdf_files = <<>>
                           \/ Len(direct_call.merger_pages) = 0
                        THEN None
                        ELSE BytesIO(PdfBytes(direct_call.merger_pages,
                                              FALSE))]
    /\ UnchangedService

NextMerge == MergeCandidate \/ MergeReturn

SpecMerge == InitMerge /\ [][NextMerge]_vars

\* One request to the wider world, and a store that fails at most once.
InitWide ==
    \E urls \in WideUrlLists, endpoint \in Endpoints :
        InitWith([j \in Jobs |->
                     IF j = 1
                     THEN [lead_id |-> "LEAD123", urls |-> urls,
                           endpoint |-> endpoint]
                     ELSE NoRequest],
                 FirstMayFail)

\* The event loop runs the handler it has started for as long as the handler
\* can run.
SpecWide == InitWide /\ [][Next]_vars /\ WF_vars(Next)

\* Two requests posted to the same endpoint, so that one PDFService instance
\* serves both, the second with either identifier.
InitShared ==
    \E n1 \in 0..MaxSharedUrls, n2 \in 0..MaxSharedUrls,
       lead_id \in LeadIds, endpoint \in Endpoints :
      \E urls1 \in [1..n1 -> {"pdfA", "img", "locked"}],
         urls2 \in [1..n2 -> {"pdfA", "img", "locked"}] :
        InitWith(
          [j \in Jobs |->
              [lead_id |-> IF j = 1 THEN "LEAD123" ELSE lead_id,
               urls |-> IF j = 1 THEN urls1 ELSE urls2,
               endpoint |-> endpoint]],
          FirstMayFail)

SpecShared == InitShared /\ [][Next]_vars

\* The stores that answer each attempt in one way: every sequence of three
\* outcomes.
FixedStores ==
    {[a \in 0..(max_retries - 1) |-> {outcomes[a]}] :
        outcomes \in [0..(max_retries - 1) -> S3Outcomes]}

\* One request for PDFs, some of them missing, and each of the stores that
\* answer in one way.
InitStore ==
    \E n \in 1..MaxStoreUrls, endpoint \in Endpoints,
       behaviour \in FixedStores :
      \E urls \in [1..n -> {"pdfA", "pdfB", "notfound"}] :
        InitWith([j \in Jobs |->
                     IF j = 1
                     THEN [lead_id |-> "LEAD123", urls |-> urls,
                           endpoint |-> endpoint]
                     ELSE NoRequest],
                 behaviour)

SpecStore == InitStore /\ [][Next]_vars

\* Two requests, each posted to either endpoint with either identifier, and
\* a store that fails at most once.
InitBoth ==
    \E lead1 \in LeadIds, lead2 \in LeadIds,
       endpoint1 \in Endpoints, endpoint2 \in Endpoints,
       n1 \in 0..MaxBothUrls, n2 \in 0..MaxBothUrls :
      \E urls1 \in [1..n1 -> {"pdfA", "notfound"}],
         urls2 \in [1..n2 -> {"pdfA", "notfound"}] :
        InitWith(
          [j \in Jobs |->
              [lead_id |-> IF j = 1 THEN lead1 ELSE lead2,
               urls |-> IF j = 1 THEN urls1 ELSE urls2,
               endpoint |-> IF j = 1 THEN endpoint1 ELSE endpoint2]],
          FirstMayFail)

SpecBoth == InitBoth /\ [][Next]_vars

SpecOmit == InitOmit /\ [][Next]_vars

SpecEnv == InitEnv /\ [][Next]_vars

\* The pages a document gives: its own when it is a PDF, the A4 page that
\* shows it when it is an image.
PagesOf(content) ==
    IF content.kind = "image"
    THEN <<content.pages[1].name>>
    ELSE content.pages

\* The pages the documents behind `urls` hold, in the order of `urls`.
RECURSIVE ConcatPages(_)
ConcatPages(urls) ==
    IF urls = <<>>
    THEN <<>>
    ELSE PagesOf(Response(Head(urls)).content) \o ConcatPages(Tail(urls))

IsUsable(url) == url \in UsableURLs

\* The pages of the usable documents among `urls`, in the order of `urls`.
UsablePages(urls) == ConcatPages(SelectSeq(urls, IsUsable))

AllIn(urls, S) == \A i \in 1..Len(urls) : urls[i] \in S

SomeIn(urls, S) == \E i \in 1..Len(urls) : urls[i] \in S

Finished(j) == job[j].pc \in {"succeeded", "failed"}

\* The merge step of job j is behind it.
MergeSettled(j) == job[j].merges > 0

\* The upload_fileobj calls job j has made.
CallsOf(j) == {c \in calls : c.job = j}

\* How often `step` occurs in the steps of job j.
Count(j, step) ==
    Cardinality({i \in 1..Len(job[j].steps) : job[j].steps[i] = step})

FailedWith(j, msg) ==
    /\ job[j].pc = "failed"
    /\ response[j].status = 500
    /\ response[j].detail = <<"Failed to process and merge PDFs: ", msg>>

\* ------------------------------------------------------------------- claims

\* C1: when every reference of a non-empty list fetches as a valid PDF, the
\* merged document holds the pages of the inputs, concatenated in the order
\* of the input list: the merged stream of the job, every body it sends to
\* the store, and the object it stores.
MergedInInputOrder ==
    \A j \in Jobs :
        (request[j].urls # <<>> /\ AllIn(request[j].urls, ValidPdfURLs)) =>
            /\ MergeSettled(j) =>
                 /\ job[j].merged_pdf # None
                 /\ job[j].merged_pdf.content.pages
                        = ConcatPages(request[j].urls)
            /\ \A c \in CallsOf(j) :
                 c.body.pages = ConcatPages(request[j].urls)
            /\ job[j].pc = "succeeded" =>
                 \E o \in s3 :
                    /\ o.key = response[j].s3_key
                    /\ o.body.pages = ConcatPages(request[j].urls)

\* A job succeeded on three valid PDFs, among them one twice and two
\* different ones next to each other.
MergedInInputOrderWitness ==
    \E j \in Jobs :
        /\ job[j].pc = "succeeded"
        /\ request[j].urls = <<"pdfB", "pdfA", "pdfB">>
        /\ job[j].merged_pdf.content.pages
               = <<"b1", "b2", "a1", "b1", "b2">>

\* C3: a reference that fails (transport error, error status, unsupported
\* type, failed conversion, invalid or unreadable PDF) does not fail the job
\* while another reference is usable: the job is never failed for want of
\* files or of a merge, its merged document and every body it uploads hold
\* exactly the pages of the usable documents, it can only fail by the upload
\* running out of attempts, and when the store accepts the upload it
\* succeeds with that document stored.
PartialFailureTolerated ==
    \A j \in Jobs :
        (SomeIn(request[j].urls, UnusableURLs)
           /\ SomeIn(request[j].urls, UsableURLs)) =>
            /\ ~FailedWith(j, NoFilesMsg)
            /\ ~FailedWith(j, MergeMsg)
            /\ job[j].pc = "failed" => FailedWith(j, UploadMsg)
            /\ MergeSettled(j) =>
                 /\ job[j].merged_pdf # None
                 /\ job[j].merged_pdf.content.pages
                        = UsablePages(request[j].urls)
            /\ (job[j].pc = "fetching"
                  /\ job[j].idx > Len(request[j].urls)) =>
                    job[j].pdf_files # <<>>
            /\ \A c \in CallsOf(j) :
                 c.body.pages = UsablePages(request[j].urls)
            /\ job[j].pc = "succeeded" =>
                 /\ response[j].status = 200
                 /\ \E o \in s3 :
                      /\ o.key = response[j].s3_key
                      /\ o.body.pages = UsablePages(request[j].urls)

\* Scenario B: one valid PDF plus one unreachable URL; the job succeeded
\* with the pages of the valid PDF.
PartialFailureToleratedWitness ==
    \E j \in Jobs :
        /\ request[j].urls = <<"unreachable", "pdfB">>
        /\ job[j].pc = "succeeded"
        /\ \E o \in s3 : o.key = response[j].s3_key
                            /\ o.body.pages = <<"b1", "b2">>

\* C4: when no reference yields a document (each one is dropped at download,
\* or the list is empty) the job fails with the no-files failure;
\* merge_pdfs is never called and no upload is ever attempted.
NoUsableInputFails ==
    \A j \in Jobs :
        (request[j] # NoRequest /\ AllIn(request[j].urls, DroppedURLs)) =>
            /\ job[j].pdf_files = <<>>
            /\ job[j].merges = 0
            /\ job[j].merged_pdf = None
            /\ CallsOf(j) = {}
            /\ job[j].pc \in {"idle", "fetching", "failed"}
            /\ Finished(j) => FailedWith(j, NoFilesMsg)
            /\ (job[j].pc = "fetching"
                  /\ job[j].idx > Len(request[j].urls)) =>
                    ENABLED NoValidFiles(j)

\* Scenario D: every reference answers 404 (or is otherwise dropped) and the
\* job has failed.
NoUsableInputFailsWitness ==
    \E j \in Jobs :
        /\ request[j].urls = <<"notfound", "notfound", "text">>
        /\ FailedWith(j, NoFilesMsg)
        /\ calls = {}

\* C5: upload_to_s3 calls the store at most 3 times for a job; when the job
\* fails for the upload it has called it exactly 3 times; a successful call
\* is the last one (the job succeeds at once and never calls the store
\* again); after 3 calls that all failed the job fails for the upload, at
\* once or after the wait that follows the third call.
UploadCallsOK ==
    \A j \in Jobs :
        /\ Count(j, "upload") <= 3
        /\ Cardinality(CallsOf(j)) = Count(j, "upload")
        /\ {c.attempt : c \in CallsOf(j)} = 0..(Count(j, "upload") - 1)
        /\ FailedWith(j, UploadMsg) => Count(j, "upload") = 3
        /\ (Count(j, "upload") = 3 /\ job[j].pc # "succeeded") =>
             \/ job[j].pc = "sleeping"
             \/ FailedWith(j, UploadMsg)
        /\ job[j].pc = "succeeded" =>
             /\ job[j].steps[Len(job[j].steps)] = "upload"
             /\ response[j].status = 200

AtMostThreeAttempts ==
    /\ []UploadCallsOK
    /\ [][\A j \in Jobs :
            Finished(j) => CallsOf(j)' = CallsOf(j) /\ job'[j] = job[j]]_vars

\* Scenario E: two failed attempts, then the third succeeds and so does the
\* job.
AtMostThreeAttemptsWitness ==
    \E j \in Jobs :
        /\ job[j].pc = "succeeded"
        /\ Count(j, "upload") = 3
        /\ Count(j, "sleep") = 2

\* C6: a job ends with a storage key or with one failure.  Until it ends
\* there is no answer; a success carries a non-empty key under which the
\* store holds the upload; a failure carries no key and the message of
\* exactly one of the three fatal categories, the one that happened.
KeyOrOneFailure ==
    /\ NoFilesMsg # MergeMsg /\ MergeMsg # UploadMsg /\ NoFilesMsg # UploadMsg
    /\ \A j \in Jobs :
        /\ ~Finished(j) => response[j] = NoResponse
        /\ job[j].pc = "succeeded" =>
             /\ response[j].status = 200
             /\ response[j].detail = <<>>
             /\ response[j].s3_key # <<>>
             /\ \E o \in s3 : o.key = response[j].s3_key
                                 /\ o.bucket = job[j].bucket
        /\ job[j].pc = "failed" =>
             /\ response[j].status = 500
             /\ response[j].s3_key = <<>>
             /\ \/ FailedWith(j, NoFilesMsg) /\ job[j].pdf_files = <<>>
                \/ /\ FailedWith(j, MergeMsg)
                   /\ job[j].pdf_files # <<>>
                   /\ job[j].merged_pdf = None
                \/ FailedWith(j, UploadMsg) /\ job[j].merged_pdf # None

\* A job has failed because the upload ran out of attempts.
KeyOrOneFailureWitness ==
    \E j \in Jobs : FailedWith(j, UploadMsg) /\ Count(j, "upload") = 3

\* The phase of the orchestrator's state machine a job is in.
Phase(pc) ==
    CASE pc = "idle" -> 0
      [] pc = "fetching" -> 1
      [] pc = "merged" -> 2
      [] pc \in {"uploading", "sleeping"} -> 3
      [] pc \in {"succeeded", "failed"} -> 4

\* What one step may do to job j.
PhaseStep(j) ==
    LET p == job[j].pc
        q == job'[j].pc
    IN  /\ Phase(q) >= Phase(p)
        \* the merge starts once, and only when every reference was fetched
        /\ job'[j].merges # job[j].merges =>
             /\ p = "fetching"
             /\ job[j].merges = 0 /\ job'[j].merges = 1
             /\ job[j].idx = Len(request[j].urls) + 1
             /\ Count(j, "download") = Len(request[j].urls)
        /\ Phase(q) = 2 => job'[j].merges = 1
        \* the upload phase starts once, from a merged document
        /\ (Phase(p) # 3 /\ Phase(q) = 3) =>
             /\ p = "merged"
             /\ job[j].merged_pdf # None
             /\ Count(j, "key") = 0
        /\ Count(j, "key")' <= 1
        /\ CallsOf(j)' # CallsOf(j) =>
             p = "uploading" /\ job[j].merged_pdf # None
        /\ q = "succeeded" /\ p # "succeeded" => p = "uploading"
        \* no download after the fetching phase
        /\ Count(j, "download")' # Count(j, "download") => p = "fetching"
        \* nothing happens to a job that has ended
        /\ Finished(j) =>
             /\ job'[j] = job[j]
             /\ response'[j] = response[j]
             /\ CallsOf(j)' = CallsOf(j)

\* C7: a job only moves forward through fetching, merging, uploading and
\* its end; the merge starts after every reference was fetched, the one
\* upload phase after the merge produced a document, and an ended job takes
\* no further step.
ForwardOnly == [][\A j \in Jobs : PhaseStep(j)]_vars

\* A job went through every phase, retried the upload, and succeeded.
ForwardOnlyWitness ==
    \E j \in Jobs :
        job[j].steps = <<"receive", "download", "download", "merge", "key",
                         "upload", "sleep", "upload">>
          /\ job[j].pc = "succeeded"

\* The value of the digit character ch.
DigitValue(ch) == CHOOSE d \in 0..9 : DigitChars[d + 1] = ch

IsDigit(ch) == \E d \in 0..9 : DigitChars[d + 1] = ch

\* The number written by the two digit characters at i and i + 1 of key.
TwoDigits(key, i) == 10 * DigitValue(key[i]) + DigitValue(key[i + 1])

\* key reads {lead_id}/merged_pdf/merged_document_{YYYYMMDD_HHMMSS}.pdf, and
\* the time it names is a time between `from` and `to` on the clock.
WellFormedKey(key, lead_id, from, to) ==
    /\ Len(key) = 18
    /\ key[1] = lead_id
    /\ key[2] = "/merged_pdf/merged_document_"
    /\ \A i \in (3..10) \cup (12..17) : IsDigit(key[i])
    /\ key[11] = "_"
    /\ key[18] = ".pdf"
    /\ SubSeq(key, 3, 8) = <<"2", "0", "2", "6", "1", "0">>
    /\ TwoDigits(key, 9) \in {30, 31}
    /\ TwoDigits(key, 12) < 24
    /\ TwoDigits(key, 14) < 60
    /\ TwoDigits(key, 16) < 60
    /\ ((TwoDigits(key, 9) - 30) * 86400 + TwoDigits(key, 12) * 3600
          + TwoDigits(key, 14) * 60 + TwoDigits(key, 16)) \in from..to

\* C9: the key a successful job returns is the key of each of its upload
\* calls and of the object the store then holds with the merged document;
\* it has the form {identifier}/merged_pdf/merged_document_{YYYYMMDD_HHMMSS}
\* .pdf with the identifier of the request, and all upload calls of a job
\* carry the same key.
ReturnedKeyIsUploadKey ==
    \A j \in Jobs :
        /\ \A c, d \in CallsOf(j) : c.key = d.key
        /\ \A c \in CallsOf(j) :
             WellFormedKey(c.key, request[j].lead_id, StartClock, clock)
        /\ job[j].pc = "succeeded" =>
             /\ \A c \in CallsOf(j) : c.key = response[j].s3_key
             /\ WellFormedKey(response[j].s3_key, request[j].lead_id,
                              StartClock, clock)
             /\ \E o \in s3 :
                  /\ o.key = response[j].s3_key
                  /\ o.bucket = job[j].bucket
                  /\ o.body = job[j].merged_pdf.content

\* A job stamped its key at 23:59:57, failed twice, waited past midnight and
\* succeeded under that key.
ReturnedKeyIsUploadKeyWitness ==
    \E j \in Jobs :
        /\ job[j].pc = "succeeded"
        /\ Count(j, "upload") = 3
        /\ clock >= 86400
        /\ request[j].lead_id = "LEAD9"
        /\ response[j].s3_key =
             <<"LEAD9", "/merged_pdf/merged_document_", "2", "0", "2", "6",
               "1", "0", "3", "0", "_", "2", "3", "5", "9", "5", "7", ".pdf">>

\* PdfMerger takes the pages of this candidate: it parses and can be read.
Survives(stream) ==
    stream.content.kind = "pdf" /\ ~stream.content.encrypted

\* C10: when the list of candidates is not empty and no candidate survives
\* the merge, merge_pdfs gives no document: the job fails with the merge
\* failure and never calls the store.
EmptyMergeFails ==
    \A j \in Jobs :
        (/\ job[j].idx > Len(request[j].urls)
         /\ job[j].pdf_files # <<>>
         /\ \A i \in 1..Len(job[j].pdf_files) : ~Survives(job[j].pdf_files[i]))
        =>
            /\ job[j].pc \in {"fetching", "failed"}
            /\ job[j].merged_pdf = None
            /\ CallsOf(j) = {}
            /\ job[j].pc = "fetching" => ENABLED Merge(j)
            /\ job[j].pc = "failed" =>
                 FailedWith(j, MergeMsg) /\ job[j].merges = 1

\* Two candidates were handed to the merge, neither survived, and the job
\* has failed with the merge failure.
EmptyMergeFailsWitness ==
    \E j \in Jobs :
        /\ request[j].urls = <<"locked", "corrupt", "locked">>
        /\ Len(job[j].pdf_files) = 2
        /\ FailedWith(j, MergeMsg)
        /\ calls = {}

\* The pages of the merged document of job j; none when there is no document.
MergedPagesOf(j) ==
    IF job[j].merged_pdf = None THEN <<>>
    ELSE job[j].merged_pdf.content.pages

\* The stored bodies of job j: what the store holds under its returned key.
StoredPagesOf(j) ==
    {o.body.pages : o \in {x \in s3 : /\ x.key = response[j].s3_key
                                      /\ x.bucket = job[j].bucket}}

\* `short` is `long` without one reference that is unusable.
IsOmission(long, short) ==
    \E u \in 1..Len(long) :
        long[u] \in UnusableURLs /\ short = Remove(long, u)

\* C2: when the list of one job is the list of another without one unusable
\* reference, both jobs merge the same page sequence (or both merge
\* nothing), upload the same bodies, and store the same pages when they
\* succeed.
OmissionKeepsPages ==
    \A j, k \in Jobs :
        IsOmission(request[j].urls, request[k].urls) =>
            /\ (Phase(job[j].pc) >= 2 /\ Phase(job[k].pc) >= 2) =>
                 /\ MergedPagesOf(j) = MergedPagesOf(k)
                 /\ (job[j].merged_pdf = None) <=> (job[k].merged_pdf = None)
            /\ \A c \in CallsOf(j), d \in CallsOf(k) : c.body = d.body
            /\ (job[j].pc = "succeeded" /\ job[k].pc = "succeeded") =>
                 StoredPagesOf(j) = StoredPagesOf(k)

\* The jobs for <<pdfB, corrupt, pdfA>> and for <<pdfB, pdfA>> have both
\* succeeded with the pages b1 b2 a1.
OmissionKeepsPagesWitness ==
    /\ request[1].urls = <<"pdfB", "corrupt", "pdfA">>
    /\ request[2].urls = <<"pdfB", "pdfA">>
    /\ job[1].pc = "succeeded" /\ job[2].pc = "succeeded"
    /\ StoredPagesOf(1) = {<<"b1", "b2", "a1">>}
    /\ StoredPagesOf(2) = {<<"b1", "b2", "a1">>}

\* The bucket of the environment an endpoint belongs to.
BucketOf(endpoint) ==
    IF endpoint = "prod" THEN "prod-bucket" ELSE "staging-bucket"

\* The store answers each attempt number in one way, to every job.
SameStoreAnswers ==
    \A a \in DOMAIN s3_behaviour : Cardinality(s3_behaviour[a]) = 1

\* C8: every upload call of a job goes to the bucket of the environment of
\* the endpoint that received the job, and the store holds nothing of a job
\* in the other bucket; two jobs with the same identifier and list that
\* differ in their endpoint, given the same answers by the store, take the
\* same steps to the same outcome and differ in nothing but the bucket (and
\* the time in their key).
EnvironmentIsolation ==
    /\ \A c \in calls : c.bucket = BucketOf(request[c.job].endpoint)
    /\ \A o \in s3 : \E c \in calls : c.bucket = o.bucket /\ c.key = o.key
                                         /\ c.body = o.body
    /\ \A j \in Jobs :
         job[j].pc # "idle" =>
            /\ job[j].is_prod <=> request[j].endpoint = "prod"
            /\ constructed[job[j].service] = job[j].is_prod
    /\ \A j, k \in Jobs :
         (/\ request[j].urls = request[k].urls
          /\ request[j].lead_id = request[k].lead_id
          /\ request[j].endpoint = "staging"
          /\ request[k].endpoint = "prod"
          /\ SameStoreAnswers
          /\ Finished(j) /\ Finished(k)) =>
            /\ job[j].steps = job[k].steps
            /\ job[j].pc = job[k].pc
            /\ job[j].pdf_files = job[k].pdf_files
            /\ job[j].merged_pdf = job[k].merged_pdf
            /\ job[j].attempt = job[k].attempt
            /\ response[j].status = response[k].status
            /\ response[j].detail = response[k].detail
            /\ {c.body : c \in CallsOf(j)} = {c.body : c \in CallsOf(k)}
            /\ {c.attempt : c \in CallsOf(j)} = {c.attempt : c \in CallsOf(k)}
            /\ job[j].pc = "succeeded" =>
                 /\ job[j].bucket = "staging-bucket"
                 /\ job[k].bucket = "prod-bucket"
                 /\ StoredPagesOf(j) = StoredPagesOf(k)
                 /\ SubSeq(response[j].s3_key, 1, 2)
                        = SubSeq(response[k].s3_key, 1, 2)

\* The same request was served by both endpoints, each job retried once, and
\* each bucket holds one copy of the merged document.
EnvironmentIsolationWitness ==
    /\ request[1].urls = <<"img", "pdfB">>
    /\ job[1].pc = "succeeded" /\ job[2].pc = "succeeded"
    /\ Count(1, "sleep") = 1 /\ Count(2, "sleep") = 1
    /\ {o.bucket : o \in s3} = {"staging-bucket", "prod-bucket"}
    /\ \A o \in s3 :
         o.body.pages = <<"photo", "b1", "b2">>

\* A call of convert_image_to_pdf on an image that has computed its size.
Scaled ==
    /\ direct_call.method = "convert_image_to_pdf"
    /\ direct_call.new_size # Pending

Abs(n) == IF n < 0 THEN -n ELSE n

Max(a, b) == IF a >= b THEN a ELSE b

\* C11: the size convert_image_to_pdf computes for an image of width x
\* height fits the 2480 x 3508 canvas, is no larger than the image in either
\* dimension, and keeps width/height to within one pixel (one of the new
\* sides is at most one pixel away from the other scaled by the image's
\* ratio); the resized image is centered on the canvas (the margins on two
\* opposite sides differ by at most one pixel); a 4000 x 2000 image is
\* scaled to width 2480, height 1240, and placed at (0, 1134).
ScaledWithinCanvas ==
    Scaled =>
      LET image      == direct_call.image_data.content.pages[1]
          new_width  == direct_call.new_size[1]
          new_height == direct_call.new_size[2]
          offset     == direct_call.offset
          result     == direct_call.result
      IN  /\ new_width <= 2480 /\ new_height <= 3508
          /\ new_width <= image.width /\ new_height <= image.height
          /\ Abs(new_width * image.height - new_height * image.width)
                <= Max(image.width, image.height)
          /\ offset # Pending =>
                /\ (2480 - new_width) - 2 * offset[1] \in {0, 1}
                /\ (3508 - new_height) - 2 * offset[2] \in {0, 1}
                /\ result = BytesIO(PdfBytes(<<image.name>>, FALSE))
          /\ (image.width = 4000 /\ image.height = 2000) =>
                /\ direct_call.new_size = <<2480, 1240>>
                /\ offset = <<0, 1134>>
                /\ result # None

\* Scenario C: the 4000 x 2000 image became a page with the image 2480
\* wide, 1240 high, at the left edge and vertically centered.
ScaledWithinCanvasWitness ==
    /\ Scaled
    /\ direct_call.image_data
          = BytesIO(ImageBytes(Picture("drawn", 4000, 2000)))
    /\ direct_call.new_size = <<2480, 1240>>
    /\ direct_call.offset = <<0, 1134>>
    /\ direct_call.result = BytesIO(PdfBytes(<<"drawn">>, FALSE))

\* C12: every external call of a job is bounded by a timeout, so that every
\* job that has started eventually reaches Succeeded or Failed, whatever the
\* remote endpoints do.
EveryJobEnds == \A j \in Jobs : (job[j].pc # "idle") ~> Finished(j)

\* The candidates process_and_merge holds after it has gone through the
\* first n of `urls`.
RECURSIVE CandidatesOf(_, _)
CandidatesOf(urls, n) ==
    IF n = 0
    THEN <<>>
    ELSE LET pdf_file == download_and_convert_file(urls[n])
         IN  IF pdf_file = None
             THEN CandidatesOf(urls, n - 1)
             ELSE Append(CandidatesOf(urls, n - 1), pdf_file)

\* The locals of job j are what its own request and the answers to its own
\* calls make them.
OwnInputsOnly(j) ==
    /\ LET fetched == CandidatesOf(request[j].urls, job[j].idx - 1)
       IN  job[j].pdf_files = IF job[j].merges = 0
                              THEN fetched
                              ELSE MergeLoopStreams(fetched)
    /\ MergeSettled(j) =>
          /\ job[j].idx = Len(request[j].urls) + 1
          /\ LET merged == merge_pdfs(job[j].pdf_files)
             IN  IF merged = None
                 THEN job[j].merged_pdf = None
                 ELSE /\ job[j].merged_pdf # None
                      /\ job[j].merged_pdf.content = merged.content
    /\ job[j].s3_key # <<>> =>
          /\ job[j].s3_key[1] = request[j].lead_id
          /\ job[j].bucket = BucketOf(request[j].endpoint)
    /\ \A c \in CallsOf(j) :
          /\ c.key = job[j].s3_key
          /\ c.bucket = job[j].bucket
          /\ c.body = job[j].merged_pdf.content
    /\ job[j].pc = "succeeded" => response[j] = Success(job[j].s3_key)

\* C13: jobs served by the same instance are independent: at every moment
\* each job's candidates, merged document, key, upload calls and answer are
\* determined by its own request and the answers to its own calls, and a
\* step of one job changes neither the locals nor the answer of another.
JobsIndependent ==
    /\ [](\A j \in Jobs : OwnInputsOnly(j))
    /\ [][\A j \in Jobs, k \in Jobs :
            (j # k /\ job'[j] # job[j]) =>
                job'[k] = job[k] /\ response'[k] = response[k]]_vars

\* Two jobs with different documents went through the same instance and
\* both succeeded.
JobsIndependentWitness ==
    /\ job[1].pc = "succeeded" /\ job[2].pc = "succeeded"
    /\ job[1].service = job[2].service
    /\ request[1].urls = <<"pdfA", "locked">>
    /\ request[2].urls = <<"img">>
    /\ job[1].merged_pdf.content.pages = <<"a1">>
    /\ job[2].merged_pdf.content.pages = <<"photo">>

\* C19: no upload of one job overwrites the upload of another: two jobs that
\* both succeed in the same environment have written to different keys.
DistinctKeys ==
    \A j \in Jobs, k \in Jobs :
        (/\ j # k
         /\ job[j].pc = "succeeded" /\ job[k].pc = "succeeded"
         /\ job[j].bucket = job[k].bucket) =>
            response[j].s3_key # response[k].s3_key

\* The answer the store gave to attempt number k (from 1) of a job, where
\* the store answers each attempt in one way.
AnswerTo(k) == CHOOSE outcome \in s3_behaviour[k - 1] : TRUE

\* C14: every upload attempt transmits the whole merged document, from its
\* first byte: the first one, and every retry, whatever the failed attempts
\* before it read of the stream and whatever their errors were.
EveryAttemptSendsAll ==
    \A c \in calls :
        /\ c.body = job[c.job].merged_pdf.content
        /\ c.body.pages = UsablePages(request[c.job].urls)

\* The first attempt failed for a clock skew after reading half of the
\* stream, the second for another error after reading all of it, and the
\* third attempt was made with both pages of the document.
EveryAttemptSendsAllWitness ==
    /\ request[1].urls = <<"pdfB">>
    /\ AnswerTo(1) = S3Outcome("RequestTimeTooSkewed", "part")
    /\ AnswerTo(2) = S3Outcome("AccessDenied", "all")
    /\ \E c \in calls :
          c.job = 1 /\ c.attempt = 2 /\ c.body.pages = <<"b1", "b2">>

\* The number of the last upload attempt job j has made, from 1.
AttemptsMade(j) == Count(j, "upload")

\* The waits of job j that are over.
WaitsDone(j) == Count(j, "sleep")

\* The sum 1 + 2 + ... + n.
Triangle(n) == (n * (n + 1)) \div 2

\* The wait of upload_to_s3 after its attempt k starts here.
WaitStarts(j, k) ==
    /\ AttemptsMade(j) = k - 1
    /\ AttemptsMade(j)' = k
    /\ job'[j].pc = "sleeping"

\* The wait of upload_to_s3 after its attempt k ends here.
WaitEnds(j, k) ==
    /\ job[j].pc = "sleeping"
    /\ AttemptsMade(j) = k
    /\ job'[j].pc # "sleeping"

\* A step of upload_to_s3 in which attempt k of job j fails.
AttemptFails(j, k) ==
    /\ AttemptsMade(j) = k - 1
    /\ AttemptsMade(j)' = k
    /\ AnswerTo(k).code # "ok"

\* C15: when attempt k fails with RequestTimeTooSkewed the uploader waits,
\* for k = 1, 2 and 3, and when it fails with another error it waits for
\* k = 1 and 2; the wait after attempt k takes k seconds (1 s, 2 s, 3 s),
\* nothing else takes time, and after the wait the uploader makes attempt
\* k + 1 with the whole document while k is below the cap of 3 attempts.
BackoffGrowsByAttempt ==
    /\ [](\A j \in Jobs : WaitsDone(j) <= AttemptsMade(j))
    /\ [][\A j \in Jobs : \A k \in 1..3 :
            /\ AttemptFails(j, k) =>
                  (job'[j].pc = "sleeping"
                     <=> (AnswerTo(k).code = "RequestTimeTooSkewed" \/ k < 3))
            /\ WaitStarts(j, k) => clock' = clock
            /\ WaitEnds(j, k) =>
                  /\ clock' = clock + k
                  /\ WaitsDone(j)' = k
                  /\ k < 3 => job'[j].pc = "uploading"
            /\ (job[j].pc = "uploading" /\ AttemptsMade(j)' = k + 1) =>
                  /\ WaitsDone(j) = k
                  /\ clock = StartClock + Triangle(k)
                  /\ \E c \in calls' :
                        /\ c.job = j /\ c.attempt = k
                        /\ c.body = job[j].merged_pdf.content]_vars
    /\ [][clock' # clock => \E j \in Jobs : job[j].pc = "sleeping"]_vars

\* The first attempt failed for a clock skew and the second for another
\* error; the third was made 1 s + 2 s after the start and succeeded.
BackoffGrowsByAttemptWitness ==
    /\ AnswerTo(1).code = "RequestTimeTooSkewed"
    /\ AnswerTo(2).code = "ConnectionClosed"
    /\ job[1].pc = "succeeded"
    /\ AttemptsMade(1) = 3
    /\ WaitsDone(1) = 2
    /\ clock = StartClock + 3

\* C20: upload_to_s3 never waits after its third attempt: whenever it
\* waits, fewer than 3 attempts have been made and another one follows.
NoWaitAfterLastAttempt ==
    \A j \in Jobs : job[j].pc = "sleeping" => AttemptsMade(j) < 3

\* A call of merge_pdfs.
Merging == direct_call.method = "merge_pdfs"

\* The candidates of the call with their streams at the start.
RewoundCandidates ==
    [i \in 1..Len(direct_call.pdf_files) |->
        seek(direct_call.pdf_files[i], 0)]

\* C16: only validated documents enter the merged output.  In a call of
\* merge_pdfs every candidate the loop has passed was validated; an append
\* of a candidate comes right after the validation of that candidate found
\* it valid, and the candidate is a PDF; a candidate found invalid is never
\* appended, and the loop goes on after it: the result holds the pages of
\* the candidates that are valid and can be read, in their order.
OnlyValidatedAppended ==
    Merging =>
      LET events == direct_call.events
      IN  /\ \A i \in 1..(direct_call.i - 1) :
                \E n \in 1..Len(events) :
                    events[n].op = "validate" /\ events[n].i = i
          /\ \A n \in 1..Len(events) :
                events[n].op = "append" =>
                  /\ n > 1
                  /\ events[n - 1] = Validated(events[n].i, TRUE)
                  /\ direct_call.pdf_files[events[n].i].content.kind = "pdf"
          /\ \A n \in 1..Len(events) :
                events[n] = Validated(events[n].i, FALSE) =>
                  /\ direct_call.i > events[n].i
                  /\ \A m \in 1..Len(events) :
                        events[m].op = "append" => events[m].i # events[n].i
          /\ direct_call.result # Pending =>
                /\ direct_call.merger_pages
                     = MergeLoop(SelectSeq(RewoundCandidates, Survives), 1,
                                 <<>>)
                /\ direct_call.result = merge_pdfs(RewoundCandidates)

\* Bytes that are no PDF stood between two valid documents: they were
\* found invalid and skipped, and the result holds the pages of the other
\* two.
OnlyValidatedAppendedWitness ==
    /\ Merging
    /\ Len(direct_call.pdf_files) = 3
    /\ direct_call.pdf_files[2].content = JunkBytes
    /\ direct_call.events =
          <<Validated(1, TRUE), Appended(1, FALSE), Validated(2, FALSE),
            Validated(3, TRUE), Appended(3, FALSE)>>
    /\ direct_call.result # Pending
    /\ direct_call.result.content.pages = <<"b1", "b2", "a1">>

\* The media type a Content-Type header declares: its first token, in
\* lower case; "" when the header is absent.
MediaType(content_type) ==
    IF content_type = <<>> THEN "" ELSE Lower(content_type[1])

\* The kind the classification rule gives to a declared type.
DeclaredKind(content_type) ==
    CASE MediaType(content_type) = "application/pdf" -> "pdf"
      [] MediaType(content_type) \in {"image/jpeg", "image/png", "image/gif"}
           -> "image"
      [] OTHER -> "unsupported"

\* The documents a job keeps of `urls` when each response is handled as
\* the kind its declared type gives: a pdf is kept when it is valid, an
\* image when it converts, and an unsupported response is dropped.
RECURSIVE KeptByDeclaredKind(_)
KeptByDeclaredKind(urls) ==
    IF urls = <<>>
    THEN <<>>
    ELSE LET r    == Response(Head(urls))
             kind == DeclaredKind(r.content_type)
             kept == /\ ~r.error
                     /\ r.status_code < 400
                     /\ \/ kind = "pdf" /\ PdfReaderOk(BytesIO(r.content))
                        \/ kind = "image" /\ ImageOpenOk(r.content)
         IN  (IF kept THEN PagesOf(r.content) ELSE <<>>)
               \o KeptByDeclaredKind(Tail(urls))

\* The pages of the streams in pdf_files, in order.
RECURSIVE PagesIn(_)
PagesIn(pdf_files) ==
    IF pdf_files = <<>>
    THEN <<>>
    ELSE Head(pdf_files).content.pages \o PagesIn(Tail(pdf_files))

\* C17: a response is handled by its declared content type alone:
\* application/pdf as a pdf, image/jpeg, image/png and image/gif as an
\* image, every other declared type and a missing header as unsupported, so
\* that the candidates of a job are the valid pdfs and the converted images
\* among its responses and the job has not failed while it fetches.
ClassifiedByDeclaredType ==
    \A j \in Jobs :
        /\ PagesIn(job[j].pdf_files)
              = KeptByDeclaredKind(SubSeq(request[j].urls, 1, job[j].idx - 1))
        /\ job[j].idx <= Len(request[j].urls) => job[j].pc # "failed"

\* A stream on which validate_pdf is called again and again.
Validating == direct_call.method = "validate_pdf"

\* C18: validate_pdf is repeatable: whatever the position of the stream
\* before each call, all validations of a stream return the same verdict,
\* the verdict of a validation from the start, and the content of the
\* stream stays what it was.
RepeatableVerdict ==
    Validating =>
      /\ direct_call.pdf_data.content = direct_call.original
      /\ \A n \in 1..Len(direct_call.verdicts) :
            /\ direct_call.verdicts[n] = direct_call.verdicts[1]
            /\ direct_call.verdicts[n]
                 = (direct_call.original.kind = "pdf")

\* A two-page PDF was validated three times, with its stream in the middle,
\* at its end and at its start, and found valid each time.
RepeatableVerdictWitness ==
    /\ Validating
    /\ direct_call.original = PdfBytes(<<"page", "page">>, FALSE)
    /\ direct_call.starts = <<1, 2, 0>>
    /\ direct_call.verdicts = <<TRUE, TRUE, TRUE>>
    /\ direct_call.pdf_data.content = direct_call.original


\* C22: for every image of width x height pixels, both at least 1, the
\* extreme ratios such as 5000 x 1 included, both dimensions
\* convert_image_to_pdf computes are at least 1 pixel and both centering
\* offsets are non-negative: the image occupies a non-empty region inside
\* the canvas.
ScaledNonEmpty ==
    Scaled =>
      LET new_width  == direct_call.new_size[1]
          new_height == direct_call.new_size[2]
          offset     == direct_call.offset
      IN  /\ new_width >= 1 /\ new_height >= 1
          /\ offset # Pending => offset[1] >= 0 /\ offset[2] >= 0

\* The instances constructed with is_prod = flag.
InstancesFor(flag) == {i \in DOMAIN constructed : constructed[i] = flag}

\* The jobs whose handler has called its get_..._service().
Entered == {j \in Jobs : job[j].pc # "idle"}

\* The module global of the endpoint's environment.
ServiceOf(endpoint) ==
    IF endpoint = "prod" THEN prod_service ELSE staging_service

\* C21: whatever requests come to the two endpoints and in whatever order,
\* at most one PDFService is ever constructed for staging and at most one
\* for production; every staging request uses the one staging instance and
\* every production request the one production instance (the global, once
\* set, is never replaced), and the two instances are never the same
\* object.
OneServicePerEnvironment ==
    /\ [](/\ Cardinality(InstancesFor(FALSE)) <= 1
          /\ Cardinality(InstancesFor(TRUE)) <= 1
          /\ staging_service # 0 => staging_service \in InstancesFor(FALSE)
          /\ prod_service # 0 => prod_service \in InstancesFor(TRUE)
          /\ staging_service # 0 => staging_service # prod_service
          /\ \A j \in Entered :
                /\ job[j].service # 0
                /\ job[j].service = ServiceOf(request[j].endpoint)
          /\ \A j, k \in Entered :
                (request[j].endpoint = request[k].endpoint)
                    <=> (job[j].service = job[k].service))
    /\ [][/\ staging_service # 0 => staging_service' = staging_service
          /\ prod_service # 0 => prod_service' = prod_service
          /\ \A j \in Entered : job'[j].service = job[j].service]_vars

\* Two requests were served by the staging endpoint, the second after the
\* first had ended, and one PDFService was constructed for both.
OneServicePerEnvironmentWitness ==
    /\ request[1].endpoint = "staging" /\ request[2].endpoint = "staging"
    /\ Finished(1) /\ Finished(2)
    /\ job[1].steps # <<>> /\ job[2].steps # <<>>
    /\ constructed = <<FALSE>>
    /\ job[1].service = 1 /\ job[2].service = 1
    /\ staging_service = 1 /\ prod_service = 0

====
